---- MODULE Spec2Model ----
(***************************************************************************)
(* A model of the LVGL image conversion API: resize_image.py (crop and     *)
(* resize geometry) and app.py (the POST /convert handler, its staging     *)
(* files in TEMP_DIR, and the download loop).                              *)
(***************************************************************************)
EXTENDS Integers, Sequences, FiniteSets, TLC

(***************************************************************************)
(* Bounds of the model.                                                    *)
(***************************************************************************)
\* Image and target dimensions are drawn from 1..MaxDim plus the scenario sizes.
MaxDim == 4
\* Number of extra 8192-byte chunks a server may send past the upload ceiling.
MaxExtraChunks == 2

(***************************************************************************)
(* Program constants.                                                      *)
(***************************************************************************)
\* app.config['MAX_CONTENT_LENGTH'] = 16 * 1024 * 1024
MAX_CONTENT_LENGTH == 16777216
\* response.iter_content(chunk_size=8192)
CHUNK_SIZE == 8192

Max(a, b) == IF a >= b THEN a ELSE b
Min(a, b) == IF a <= b THEN a ELSE b

(***************************************************************************)
(* Python's int(a * (b / c)) for positive integers a, b, c, in IEEE-754    *)
(* double arithmetic.  The quotient b / c and the product are each rounded *)
(* to the nearest double and int() truncates.  For the values of this      *)
(* model the result is floor(a*b/c), except for the triples of FloatShort, *)
(* where a*b/c is an integer k and the double product is just below k      *)
(* (for instance 49 * (1 / 49) = 0.9999999999999999), so int() gives k-1.  *)
(* The table lists every such triple with a, b, c in                       *)
(* 1..12 \cup {49, 400, 480, 600, 800, 1200, 1600}.                        *)
(***************************************************************************)
FloatShort ==
    { <<11, 49, 11>>, <<11, 480, 11>>, <<49, 1, 49>>, <<49, 2, 49>>,
      <<49, 4, 49>>, <<49, 8, 49>>, <<480, 49, 3>>, <<480, 49, 6>>,
      <<480, 49, 12>> }

IntTimesRatio(a, b, c) ==
    IF <<a, b, c>> \in FloatShort THEN ((a * b) \div c) - 1 ELSE (a * b) \div c

(***************************************************************************)
(* resize_image.py                                                         *)
(***************************************************************************)
\* An image file of TEMP_DIR: the request whose fetched bytes it holds or was
\* derived from (src), whether PIL can decode it, and its pixel size.
NoFile == [exists |-> FALSE, src |-> 0, ok |-> FALSE, w |-> 0, h |-> 0]
ImageFile(src, ok, w, h) == [exists |-> TRUE, src |-> src, ok |-> ok, w |-> w, h |-> h]

\* target_size: None, an int, a (width, height) tuple of ints, or a value of
\* another type ("bad": a str, or a tuple holding a str).
NoTarget == [kind |-> "none", w |-> 0, h |-> 0]
Single(d) == [kind |-> "single", w |-> d, h |-> 0]
Pair(w, h) == [kind |-> "pair", w |-> w, h |-> h]
BadTarget == [kind |-> "bad", w |-> 0, h |-> 0]

\* crop: None (or an empty dict, which `if crop:` skips) or the four insets.
NoCrop == [present |-> FALSE, left |-> 0, top |-> 0, right |-> 0, bottom |-> 0]
Crop(l, t, r, b) == [present |-> TRUE, left |-> l, top |-> t, right |-> r, bottom |-> b]

\* Lines 63-74: the crop rectangle handed to img.crop, <<left, top, right, bottom>>.
CropRectNoOrder(orig_w, orig_h, crop) ==
    LET left == Max(0, Min(crop.left, orig_w))
        top == Max(0, Min(crop.top, orig_h))
        right == Max(0, Min(orig_w - crop.right, orig_w))
        bottom == Max(0, Min(orig_h - crop.bottom, orig_h))
    IN  <<left, top, right, bottom>>

CropRect(orig_w, orig_h, crop) ==
    LET left == Max(0, Min(crop.left, orig_w))
        top == Max(0, Min(crop.top, orig_h))
        right == Max(left, Min(orig_w - crop.right, orig_w))
        bottom == Max(top, Min(orig_h - crop.bottom, orig_h))
    IN  <<left, top, right, bottom>>

\* Lines 94-120: the (target_width, target_height) handed to img.resize for an
\* image of orig_width x orig_height, or the exception raised on the way.
TargetDimsFill(orig_width, orig_height, target, keep) ==
    IF target.kind = "single"
    THEN IF target.w <= 0 THEN [exc |-> "ValueError", w |-> 0, h |-> 0]
         ELSE IF orig_width = 0 THEN [exc |-> "ZeroDivisionError", w |-> 0, h |-> 0]
         ELSE [exc |-> "", w |-> target.w,
               h |-> IntTimesRatio(orig_height, target.w, orig_width)]
    ELSE IF target.kind = "pair"
    THEN IF target.w <= 0 \/ target.h <= 0 THEN [exc |-> "ValueError", w |-> 0, h |-> 0]
         ELSE IF ~keep THEN [exc |-> "", w |-> target.w, h |-> target.h]
         ELSE IF orig_width = 0 \/ orig_height = 0
              THEN [exc |-> "ZeroDivisionError", w |-> 0, h |-> 0]
         ELSE IF target.w * orig_height > target.h * orig_width
              THEN [exc |-> "", w |-> target.w,
                    h |-> IntTimesRatio(orig_height, target.w, orig_width)]
              ELSE [exc |-> "", h |-> target.h,
                    w |-> IntTimesRatio(orig_width, target.h, orig_height)]
    ELSE [exc |-> IF target.kind = "bad" THEN "TypeError" ELSE "ValueError", w |-> 0, h |-> 0]

TargetDims(orig_width, orig_height, target, keep) ==
    IF target.kind = "single"
    THEN IF target.w <= 0 THEN [exc |-> "ValueError", w |-> 0, h |-> 0]
         ELSE IF orig_width = 0 THEN [exc |-> "ZeroDivisionError", w |-> 0, h |-> 0]
         ELSE [exc |-> "", w |-> target.w,
               h |-> IntTimesRatio(orig_height, target.w, orig_width)]
    ELSE IF target.kind = "pair"
    THEN IF target.w <= 0 \/ target.h <= 0 THEN [exc |-> "ValueError", w |-> 0, h |-> 0]
         ELSE IF ~keep THEN [exc |-> "", w |-> target.w, h |-> target.h]
         ELSE IF orig_width = 0 \/ orig_height = 0
              THEN [exc |-> "ZeroDivisionError", w |-> 0, h |-> 0]
         \* width_ratio < height_ratio
         ELSE IF target.w * orig_height < target.h * orig_width
              THEN [exc |-> "", w |-> target.w,
                    h |-> IntTimesRatio(orig_height, target.w, orig_width)]
              ELSE [exc |-> "", h |-> target.h,
                    w |-> IntTimesRatio(orig_width, target.h, orig_height)]
    ELSE [exc |-> IF target.kind = "bad" THEN "TypeError" ELSE "ValueError", w |-> 0, h |-> 0]

\* The result of one call of resize_image: the exception raised ("" for a
\* normal return), the crop rectangle applied (<<>> for none), the pixel
\* operations performed in order, the size handed to img.resize (resizeArgs,
\* <<>> when img.resize was not called) and the size of the image saved.
\* pilEmptyOk: whether the installed PIL accepts an empty (zero width or
\* height) size in resize and save, or raises ValueError.
Raised(exc, rect, ops, args) ==
    [exc |-> exc, cropRect |-> rect, ops |-> ops, resizeArgs |-> args,
     saved |-> FALSE, w |-> 0, h |-> 0]

Returned(rect, ops, args, w, h) ==
    [exc |-> "", cropRect |-> rect, ops |-> ops, resizeArgs |-> args,
     saved |-> TRUE, w |-> w, h |-> h]

resize_image(input, target, keep, crop, pilEmptyOk) ==
    IF ~input.exists THEN Raised("FileNotFoundError", <<>>, <<>>, <<>>)
    ELSE IF ~input.ok THEN Raised("UnidentifiedImageError", <<>>, <<>>, <<>>)
    ELSE
    LET rect == IF crop.present THEN CropRect(input.w, input.h, crop) ELSE <<>>
        ops1 == IF crop.present THEN <<"crop">> ELSE <<>>
        orig_width == IF crop.present THEN rect[3] - rect[1] ELSE input.w
        orig_height == IF crop.present THEN rect[4] - rect[2] ELSE input.h
        empty == orig_width = 0 \/ orig_height = 0
    IN  IF target.kind = "none"
        THEN IF empty /\ ~pilEmptyOk
             THEN Raised("ValueError", rect, ops1 \o <<"save">>, <<>>)
             ELSE Returned(rect, ops1 \o <<"save">>, <<>>, orig_width, orig_height)
        ELSE
        LET t == TargetDims(orig_width, orig_height, target, keep)
        IN  IF t.exc # "" THEN Raised(t.exc, rect, ops1, <<>>)
            ELSE IF (t.w < 1 \/ t.h < 1) /\ ~pilEmptyOk
            THEN Raised("ValueError", rect, ops1 \o <<"resize">>, <<t.w, t.h>>)
            ELSE Returned(rect, ops1 \o <<"resize", "save">>, <<t.w, t.h>>, t.w, t.h)

(***************************************************************************)
(* app.py: the values a request carries.                                   *)
(***************************************************************************)
\* A JSON value used where the code expects a number: None/null, an int, or
\* a non-empty str.
NoneVal == [k |-> "none", v |-> 0]
IntVal(n) == [k |-> "int", v |-> n]
StrVal == [k |-> "str", v |-> 0]
\* Python truthiness: `not x` is TRUE for None and for 0.
Truthy(x) == (x.k = "int" /\ x.v # 0) \/ x.k = "str"

\* data['maxSize']: absent; a str, given as the list max_size.split('x')
\* of its pieces, each piece one int() can parse (IntVal) or not (StrVal);
\* a dict with or without its 'width' and 'height' keys; or a bare number.
MsAbsent == [t |-> "absent", parts |-> <<>>, hasW |-> FALSE, hasH |-> FALSE,
             width |-> NoneVal, height |-> NoneVal]
MsStr(parts) == [t |-> "str", parts |-> parts, hasW |-> FALSE, hasH |-> FALSE,
                 width |-> NoneVal, height |-> NoneVal]
MsDict(hasW, hasH, w, h) == [t |-> "dict", parts |-> <<>>, hasW |-> hasW, hasH |-> hasH,
                             width |-> w, height |-> h]
MsNum(n) == [t |-> "num", parts |-> <<>>, hasW |-> FALSE, hasH |-> FALSE,
             width |-> IntVal(n), height |-> NoneVal]

\* An option of data: absent, or present with a str value.
Absent == [present |-> FALSE, v |-> ""]
Given(s) == [present |-> TRUE, v |-> s]

\* The enum classes of LVGLImage as getattr sees them: the member names, and
\* the other attributes every class has (getattr(ColorFormat, "__name__") is
\* the str "ColorFormat", not a member).
ColorFormat == {"RGB565", "RGB565A8", "RGB888"}
OutputFormat == {"BIN_FILE", "C_ARRAY"}
CompressMethod == {"NONE", "RLE", "LZ4"}
ClassAttributes == {"__name__"}

\* Lines 34-39: getattr(enum_class, value_str), None on AttributeError.
NoValue == [kind |-> "none", name |-> ""]
get_enum_value(enum_class, value_str) ==
    IF value_str \in enum_class THEN [kind |-> "member", name |-> value_str]
    ELSE IF value_str \in ClassAttributes THEN [kind |-> "attr", name |-> value_str]
    ELSE NoValue

\* ALLOWED_EXTENSIONS and str.lower() on the extensions of the model.
ALLOWED_EXTENSIONS == {"jpg", "jpeg", "png"}
Lower(s) == CASE s = "PNG" -> "png" [] s = "JPG" -> "jpg" [] OTHER -> s

\* Lines 30-32.  A filename is the list filename.split('.') of its pieces:
\* <<"">> is the empty name, one piece a name without a dot.
allowed_file(filename) ==
    Len(filename) >= 2 /\ Lower(filename[Len(filename)]) \in ALLOWED_EXTENSIONS

\* Line 89: content_type.startswith(('image/jpeg', 'image/png')).
ImageContentTypes == {"image/png", "image/jpeg", "image/png; charset=binary"}

(***************************************************************************)
(* app.py: the state of the server.                                        *)
(***************************************************************************)
ReqIds == {1, 2}

VARIABLES
    req,        \* req[r]: the request r as the client sent it
    pc,         \* pc[r]: where convert_image stands for request r
    images,     \* the image files of TEMP_DIR: input.png, resized.png
    outputs,    \* the encoder's files of TEMP_DIR: output.bin, output.c
    loc,        \* loc[r]: the local variables of convert_image for request r
    written,    \* written[r]: bytes the download loop of r wrote to input.png
    resp,       \* resp[r]: the response sent for request r
    did,        \* did[r]: the pipeline steps executed for request r, in order
    geomIn,     \* the arguments of a direct call of resize_image
    geomOut     \* its result

vars == <<req, pc, images, outputs, loc, written, resp, did, geomIn, geomOut>>

\* An encoder output file: the request whose image it encodes (src), the
\* request that wrote it (by), and what was encoded.
NoOutput == [exists |-> FALSE, src |-> 0, by |-> 0, w |-> 0, h |-> 0,
             cf |-> "", fmt |-> "", comp |-> "", dither |-> FALSE]

NoResponse == [status |-> 0, error |-> "", mime |-> "", filename |-> "", art |-> NoOutput]
Error(status, msg) == [status |-> status, error |-> msg, mime |-> "application/json",
                       filename |-> "", art |-> NoOutput]

\* Lines 44-47, 102-103: the locals of convert_image at entry.
InitLoc == [temp_resized |-> "resized.png", temp_output |-> "output.bin",
            width |-> NoneVal, height |-> NoneVal,
            color_format |-> NoValue, output_format |-> NoValue,
            compression |-> NoValue, dithering |-> FALSE]

\* The dict `data` of a request: {} for an upload without a params field.
NoData == [maxSize |-> MsAbsent, cf |-> Absent, output |-> Absent,
           compression |-> Absent, dithering |-> FALSE]

\* Lines 49-99, up to the point where bytes are staged: the response that
\* ends the request there ("" to go on), and whether the upload was saved to
\* temp_input before it.
FetchOutcome(q) ==
    IF q.kind = "upload"
    THEN \* Flask refuses a body above MAX_CONTENT_LENGTH when request.files
         \* is first read.
         IF q.body > MAX_CONTENT_LENGTH
         THEN [resp |-> Error(413, "Request Entity Too Large"), saved |-> FALSE]
         ELSE IF q.filename = <<"">> \/ ~allowed_file(q.filename)
         THEN [resp |-> Error(400, "Invalid file type"), saved |-> FALSE]
         ELSE IF q.params = "invalid"
         THEN [resp |-> Error(400, "Invalid JSON in params field"), saved |-> TRUE]
         ELSE [resp |-> NoResponse, saved |-> TRUE]
    ELSE IF q.kind = "json"
    THEN IF ~q.hasUrl
         THEN [resp |-> Error(400, "No URL provided in JSON"), saved |-> FALSE]
         ELSE IF q.url.scheme = "" \/ q.url.netloc = ""
         THEN [resp |-> Error(400, "Invalid URL provided"), saved |-> FALSE]
         ELSE IF q.server = "error"
         THEN [resp |-> Error(400, "Error downloading image"), saved |-> FALSE]
         ELSE IF q.contentType \notin ImageContentTypes
         THEN [resp |-> Error(400, "URL does not point to a JPG or PNG image"),
               saved |-> FALSE]
         ELSE [resp |-> NoResponse, saved |-> FALSE]
    ELSE [resp |-> Error(400, "No image file or URL provided"), saved |-> FALSE]

\* Lines 49-93.  An upload is saved to temp_input in one step; for a URL the
\* file is opened for writing (truncated) and the chunk loop follows.
Fetch(r) ==
    /\ pc[r] = "fetch"
    /\ LET q == req[r]
           out == FetchOutcome(q)
           opens == q.kind = "json" /\ out.resp.status = 0
       IN  /\ images' = IF out.saved
                        THEN [images EXCEPT !["input.png"] = ImageFile(r, q.img.ok, q.img.w, q.img.h)]
                        ELSE IF opens
                        THEN [images EXCEPT !["input.png"] = ImageFile(r, FALSE, 0, 0)]
                        ELSE images
           /\ did' = [did EXCEPT ![r] = IF out.saved \/ opens THEN Append(@, "fetch") ELSE @]
           /\ resp' = [resp EXCEPT ![r] = out.resp]
           /\ pc' = [pc EXCEPT ![r] = IF out.resp.status # 0 THEN "done"
                                      ELSE IF opens /\ q.body > 0 THEN "download"
                                      ELSE "resize"]
    /\ written' = IF req[r].kind = "upload" /\ FetchOutcome(req[r]).saved
                  THEN [written EXCEPT ![r] = req[r].body] ELSE written
    /\ UNCHANGED <<req, outputs, loc, geomIn, geomOut>>

\* The lengths the next chunk of iter_content(chunk_size=8192) may have when
\* `remaining` bytes of the body are still to come.
ChunkLens(remaining) ==
    {Min(remaining, CHUNK_SIZE), Min(remaining, CHUNK_SIZE \div 2)}

\* Lines 94-95: one turn of the loop, f.write(chunk).  The file holds the
\* image once the whole body is written by this request alone; bytes of two
\* writers mixed in input.png do not decode.
DownloadChunk(r) ==
    /\ pc[r] = "download"
    /\ \E c \in ChunkLens(req[r].body - written[r]) :
        LET total == written[r] + c
            complete == total = req[r].body
            alone == images["input.png"].src = r
        IN  /\ written' = [written EXCEPT ![r] = total]
            /\ images' = [images EXCEPT !["input.png"] =
                            IF complete /\ alone
                            THEN ImageFile(r, req[r].img.ok, req[r].img.w, req[r].img.h)
                            ELSE ImageFile(r, FALSE, 0, 0)]
            /\ pc' = [pc EXCEPT ![r] = IF complete THEN "resize" ELSE "download"]
    /\ UNCHANGED <<req, outputs, loc, resp, did, geomIn, geomOut>>

\* Lines 59-70: the dict `data`.
Data(q) == IF q.kind = "upload" /\ q.params # "valid" THEN NoData ELSE q.data

\* Lines 105-116: width and height from data['maxSize'], or the ValueError
\* of map(int, max_size.split('x')) (a piece int() rejects, or not two pieces).
ParseMaxSize(ms) ==
    IF ms.t = "str" /\ Len(ms.parts) >= 2
    THEN IF Len(ms.parts) = 2 /\ ms.parts[1].k = "int" /\ ms.parts[2].k = "int"
         THEN [err |-> FALSE, width |-> ms.parts[1], height |-> ms.parts[2]]
         ELSE [err |-> TRUE, width |-> NoneVal, height |-> NoneVal]
    ELSE IF ms.t = "dict" /\ ms.hasW /\ ms.hasH
    THEN [err |-> FALSE, width |-> ms.width, height |-> ms.height]
    ELSE [err |-> FALSE, width |-> NoneVal, height |-> NoneVal]

\* Lines 119-132: the target_size handed to resize_image (NoTarget: no call).
TargetSize(width, height) ==
    IF ~Truthy(width) /\ ~Truthy(height) THEN NoTarget
    ELSE IF ~Truthy(width) \/ ~Truthy(height)
    THEN LET target_size == IF Truthy(width) THEN width ELSE height
         IN  IF target_size.k = "int" THEN Single(target_size.v) ELSE BadTarget
    ELSE IF width.k = "int" /\ height.k = "int" THEN Pair(width.v, height.v)
    ELSE BadTarget

\* Lines 101-134.
Resize(r) ==
    /\ pc[r] = "resize"
    /\ \E pilEmptyOk \in BOOLEAN :
        LET parsed == ParseMaxSize(Data(req[r]).maxSize)
            target == TargetSize(parsed.width, parsed.height)
            res == resize_image(images["input.png"], target, TRUE, NoCrop, pilEmptyOk)
        IN  IF parsed.err
            THEN /\ resp' = [resp EXCEPT ![r] = Error(400, "Invalid maxSize format")]
                 /\ pc' = [pc EXCEPT ![r] = "done"]
                 /\ UNCHANGED <<images, loc, did>>
            ELSE IF target.kind = "none"
            THEN /\ loc' = [loc EXCEPT ![r].width = parsed.width,
                                       ![r].height = parsed.height,
                                       ![r].temp_resized = "input.png"]
                 /\ pc' = [pc EXCEPT ![r] = "options"]
                 /\ UNCHANGED <<images, resp, did>>
            ELSE /\ did' = [did EXCEPT ![r] = Append(@, "resize")]
                 /\ loc' = [loc EXCEPT ![r].width = parsed.width,
                                       ![r].height = parsed.height]
                 /\ images' = IF res.saved
                              THEN [images EXCEPT !["resized.png"] =
                                      ImageFile(images["input.png"].src, TRUE, res.w, res.h)]
                              ELSE images
                 /\ resp' = [resp EXCEPT ![r] = IF res.exc # ""
                                                THEN Error(500, "Error resizing image")
                                                ELSE @]
                 /\ pc' = [pc EXCEPT ![r] = IF res.exc # "" THEN "done" ELSE "options"]
    /\ UNCHANGED <<req, outputs, written, geomIn, geomOut>>

\* Lines 145-149: output_map.get(output_type, 'BIN_FILE').
output_map_strict(output_type) ==
    CASE output_type = "bin" -> "BIN_FILE"
      [] output_type = "c_array" -> "C_ARRAY"
      [] OTHER -> output_type

output_map(output_type) ==
    CASE output_type = "bin" -> "BIN_FILE"
      [] output_type = "c_array" -> "C_ARRAY"
      [] OTHER -> "BIN_FILE"

OptionOr(opt, default) == IF opt.present THEN opt.v ELSE default

\* Lines 136-161.
Options(r) ==
    /\ pc[r] = "options"
    /\ LET data == Data(req[r])
           color_format == get_enum_value(ColorFormat, OptionOr(data.cf, "RGB565"))
           output_format == get_enum_value(OutputFormat,
                                           output_map(OptionOr(data.output, "bin")))
           compression == get_enum_value(CompressMethod, OptionOr(data.compression, "NONE"))
           error == IF color_format.kind = "none" THEN "Invalid color format"
                    ELSE IF output_format.kind = "none" THEN "Invalid output format"
                    ELSE IF compression.kind = "none" THEN "Invalid compression"
                    ELSE ""
       IN  /\ loc' = [loc EXCEPT ![r].color_format = color_format,
                                 ![r].output_format = output_format,
                                 ![r].compression = compression,
                                 ![r].dithering = data.dithering]
           /\ resp' = [resp EXCEPT ![r] = IF error # "" THEN Error(400, error) ELSE @]
           /\ pc' = [pc EXCEPT ![r] = IF error # "" THEN "done" ELSE "encode"]
    /\ UNCHANGED <<req, images, outputs, written, did, geomIn, geomOut>>

\* Lines 163-181: from_png reads temp_resized and to_bin / to_c_array writes
\* temp_output.  The encoder raises on a file PIL cannot decode and on a cf
\* or compress argument that is no enum member; encoderFails is a failure
\* inside the encoder itself.
Encode(r) ==
    /\ pc[r] = "encode"
    /\ \E encoderFails \in BOOLEAN :
        LET l == loc[r]
            dithering == l.dithering /\ l.color_format.name \in {"RGB565", "RGB565A8"}
            png == images[l.temp_resized]
            raises == \/ ~png.exists \/ ~png.ok
                      \/ l.color_format.kind # "member"
                      \/ l.compression.kind # "member"
                      \/ encoderFails
            temp_output == IF l.output_format.name = "BIN_FILE"
                           THEN "output.bin" ELSE "output.c"
        IN  /\ did' = [did EXCEPT ![r] = Append(@, "encode")]
            /\ loc' = [loc EXCEPT ![r].dithering = dithering,
                                  ![r].temp_output = temp_output]
            /\ outputs' = IF raises THEN outputs
                          ELSE [outputs EXCEPT ![temp_output] =
                                  [exists |-> TRUE, src |-> png.src, by |-> r,
                                   w |-> png.w, h |-> png.h,
                                   cf |-> l.color_format.name,
                                   fmt |-> l.output_format.name,
                                   comp |-> l.compression.name,
                                   dither |-> dithering]]
            /\ resp' = [resp EXCEPT ![r] = IF raises
                                           THEN Error(500, "Error converting image")
                                           ELSE @]
            /\ pc' = [pc EXCEPT ![r] = IF raises THEN "done" ELSE "send"]
    /\ UNCHANGED <<req, images, written, geomIn, geomOut>>

\* Lines 175-176, 180-181, 184-189: send_file reads temp_output.
Send(r) ==
    /\ pc[r] = "send"
    /\ LET bin == loc[r].output_format.name = "BIN_FILE"
       IN  resp' = [resp EXCEPT ![r] =
                      [status |-> 200, error |-> "",
                       mime |-> IF bin THEN "application/octet-stream" ELSE "text/plain",
                       filename |-> IF bin THEN "output.bin" ELSE "output.c",
                       art |-> outputs[loc[r].temp_output]]]
    /\ pc' = [pc EXCEPT ![r] = "done"]
    /\ UNCHANGED <<req, images, outputs, loc, written, did, geomIn, geomOut>>

(***************************************************************************)
(* The requests and calls of the model.                                    *)
(***************************************************************************)
Url(scheme, netloc) == [scheme |-> scheme, netloc |-> netloc]
Img(ok, w, h) == [ok |-> ok, w |-> w, h |-> h]

Upload(body, filename, params, img, data) ==
    [kind |-> "upload", body |-> body, filename |-> filename, params |-> params,
     hasUrl |-> FALSE, url |-> Url("", ""), server |-> "ok", contentType |-> "",
     img |-> img, data |-> data]

Json(hasUrl, url, server, contentType, body, img, data) ==
    [kind |-> "json", body |-> body, filename |-> <<"">>, params |-> "absent",
     hasUrl |-> hasUrl, url |-> url, server |-> server, contentType |-> contentType,
     img |-> img, data |-> data]

Neither ==
    [kind |-> "none", body |-> 0, filename |-> <<"">>, params |-> "absent",
     hasUrl |-> FALSE, url |-> Url("", ""), server |-> "ok", contentType |-> "",
     img |-> Img(FALSE, 0, 0), data |-> NoData]

Images == {Img(FALSE, 0, 0)} \cup {Img(TRUE, w, h) : w, h \in {1, MaxDim}}

MaxSizes ==
    { MsAbsent,
      MsStr(<<IntVal(2), IntVal(2)>>),            \* "2x2"
      MsStr(<<IntVal(1), IntVal(MaxDim)>>),       \* "1x4"
      MsStr(<<IntVal(0), IntVal(0)>>),            \* "0x0"
      MsStr(<<IntVal(0), IntVal(2)>>),            \* "0x2"
      MsStr(<<IntVal(-1), IntVal(2)>>),           \* "-1x2"
      MsStr(<<IntVal(2)>>),                       \* "2"
      MsStr(<<StrVal, StrVal>>),                  \* "axb"
      MsStr(<<IntVal(1), IntVal(2), IntVal(3)>>), \* "1x2x3"
      MsDict(TRUE, TRUE, IntVal(2), IntVal(2)),   \* {"width": 2, "height": 2}
      MsDict(TRUE, FALSE, IntVal(2), NoneVal),    \* {"width": 2}
      MsDict(TRUE, TRUE, NoneVal, IntVal(2)),     \* {"width": null, "height": 2}
      MsDict(TRUE, TRUE, StrVal, IntVal(2)),      \* {"width": "2", "height": 2}
      MsNum(2) }                                  \* 2

Datas ==
    [maxSize : MaxSizes,
     cf : {Absent, Given("RGB565"), Given("RGB888"), Given("FOO"), Given("__name__")},
     output : {Absent, Given("bin"), Given("c_array"), Given("foo")},
     compression : {Absent, Given("RLE"), Given("FOO")},
     dithering : BOOLEAN]

PlainData == [NoData EXCEPT !.maxSize = MsStr(<<IntVal(2), IntVal(2)>>)]
GoodUrl == Url("https", "example.com")

\* Every option of data, on an upload and on a URL that both fetch.
UploadRequest(i, d) == Upload(CHUNK_SIZE, <<"a", "png">>, "valid", i, d)
UrlRequest(i, d) == Json(TRUE, GoodUrl, "ok", "image/png", CHUNK_SIZE + 1, i, d)

\* Every shape of the source, with one data.
SourceRequests ==
    {Upload(b, f, p, Img(TRUE, 1, MaxDim), PlainData) :
        b \in {CHUNK_SIZE, MAX_CONTENT_LENGTH + 1},
        f \in {<<"a", "png">>, <<"a", "b", "JPG">>, <<"a", "exe">>, <<"png">>, <<"">>},
        p \in {"absent", "valid", "invalid"}}
    \cup {Json(u, url, s, c, b, Img(TRUE, 1, MaxDim), PlainData) :
            u \in BOOLEAN,
            url \in {GoodUrl, Url("", "example.com"), Url("https", "")},
            s \in {"ok", "error"},
            c \in {"image/jpeg", "image/png; charset=binary", "text/html", ""},
            b \in {0, CHUNK_SIZE}}
    \cup {Neither}

\* The arguments of the direct calls of resize_image: image sizes and
\* targets with the scenario sizes, and crops on the small images.
Dims == (1..MaxDim) \cup {49, 600, 800, 1200, 1600}
TargetVals == (-1..MaxDim) \cup {400, 480, 800}
Targets ==
    {NoTarget} \cup {Single(d) : d \in TargetVals}
    \cup {Pair(a, b) : a, b \in TargetVals}
CropVals == {-1, 0, 1, MaxDim + 1}
SmallTargets == {NoTarget, Single(1), Single(2), Pair(1, 2), Pair(2, 1), Pair(2, 2)}

\* resize_image was not called yet.
NotCalled == [called |-> FALSE, res |-> Raised("", <<>>, <<>>, <<>>)]
NoGeom == [w |-> 1, h |-> 1, target |-> NoTarget, keep |-> TRUE, crop |-> NoCrop]

\* The server after start-up: TEMP_DIR exists and is empty, no request is in
\* the handler.
Init ==
    /\ req = [r \in ReqIds |-> Neither]
    /\ pc = [r \in ReqIds |-> "idle"]
    /\ images = [f \in {"input.png", "resized.png"} |-> NoFile]
    /\ outputs = [f \in {"output.bin", "output.c"} |-> NoOutput]
    /\ loc = [r \in ReqIds |-> InitLoc]
    /\ written = [r \in ReqIds |-> 0]
    /\ resp = [r \in ReqIds |-> NoResponse]
    /\ did = [r \in ReqIds |-> <<>>]
    /\ geomIn = NoGeom
    /\ geomOut = NotCalled

\* Line 41: a POST /convert request q enters convert_image as request r.
Enter(r, q) ==
    /\ pc[r] = "idle"
    /\ req' = [req EXCEPT ![r] = q]
    /\ pc' = [pc EXCEPT ![r] = "fetch"]
    /\ UNCHANGED <<images, outputs, loc, written, resp, did, geomIn, geomOut>>

\* One request, of every kind.
Receive ==
    /\ pc[1] = "idle"
    /\ \/ \E i \in Images, d \in Datas : Enter(1, UploadRequest(i, d))
       \/ \E i \in Images, d \in Datas : Enter(1, UrlRequest(i, d))
       \/ \E q \in SourceRequests : Enter(1, q)

Handle(r) ==
    \/ Fetch(r)
    \/ DownloadChunk(r)
    \/ Resize(r)
    \/ Options(r)
    \/ Encode(r)
    \/ Send(r)

Next == Receive \/ \E r \in ReqIds : Handle(r)

Spec == Init /\ [][Next]_vars

\* A direct call resize_image(input_path, output_path, target_size,
\* keep_aspect_ratio, resampling_method, crop) on a decodable image.
Call(in, pilEmptyOk) ==
    /\ geomIn' = in
    /\ geomOut' = [called |-> TRUE,
                   res |-> resize_image(ImageFile(0, TRUE, in.w, in.h),
                                        in.target, in.keep, in.crop, pilEmptyOk)]
    /\ UNCHANGED <<req, pc, images, outputs, loc, written, resp, did>>

Resolve ==
    /\ ~geomOut.called
    /\ \/ \E w \in Dims, h \in Dims, t \in Targets, k \in BOOLEAN, p \in BOOLEAN :
            Call([w |-> w, h |-> h, target |-> t, keep |-> k, crop |-> NoCrop], p)
       \/ \E w \in 1..MaxDim, h \in 1..MaxDim, t \in SmallTargets, k \in BOOLEAN,
             l \in CropVals, tp \in CropVals, r \in CropVals, b \in CropVals,
             p \in BOOLEAN :
            Call([w |-> w, h |-> h, target |-> t, keep |-> k,
                  crop |-> Crop(l, tp, r, b)], p)

NextGeometry == Resolve

SpecGeometry == Init /\ [][NextGeometry]_vars

\* Two requests in the handler at once (the server runs one thread per
\* request), each an upload or a URL of its own image.
ConcurrentDatas ==
    {NoData, PlainData,
     [NoData EXCEPT !.output = Given("c_array")],
     [PlainData EXCEPT !.cf = Given("RGB888")]}

ReceiveConcurrent ==
    \E r \in ReqIds :
        /\ pc[r] = "idle"
        /\ \E d \in ConcurrentDatas, url \in BOOLEAN :
            Enter(r, IF url THEN UrlRequest(Img(TRUE, r, MaxDim), d)
                            ELSE UploadRequest(Img(TRUE, r, MaxDim), d))

NextConcurrent == ReceiveConcurrent \/ \E r \in ReqIds : Handle(r)

SpecConcurrent == Init /\ [][NextConcurrent]_vars

\* One URL request whose server sends a body up to MaxExtraChunks chunks
\* longer than MAX_CONTENT_LENGTH.
ReceiveDownload ==
    /\ pc[1] = "idle"
    /\ \E k \in 0..MaxExtraChunks, i \in {Img(TRUE, 1, MaxDim), Img(FALSE, 0, 0)} :
        Enter(1, Json(TRUE, GoodUrl, "ok", "image/png",
                      IF k = 0 THEN CHUNK_SIZE + 1 ELSE MAX_CONTENT_LENGTH + k * CHUNK_SIZE,
                      i, PlainData))

NextDownload == ReceiveDownload \/ \E r \in ReqIds : Handle(r)

SpecDownload == Init /\ [][NextDownload]_vars

(***************************************************************************)
(* Properties.                                                             *)
(***************************************************************************)
Active(r) == pc[r] # "idle"
Done(r) == pc[r] = "done"
Steps(r) == {did[r][i] : i \in 1..Len(did[r])}
Unrecognized(opt, names) == opt.present /\ opt.v \notin names
OutputNames == {"bin", "c_array"}

\* A maxSize as the API documents it: "WIDTHxHEIGHT" of two positive
\* integers, or {width, height}.
WellFormedMaxSize(ms) ==
    \/ /\ ms.t = "str"
       /\ Len(ms.parts) = 2
       /\ \A i \in 1..2 : ms.parts[i].k = "int" /\ ms.parts[i].v > 0
    \/ ms.t = "dict" /\ ms.hasW /\ ms.hasH

\* The parts of a request a property is not about are in order: the image
\* decodes, the options are recognized names, maxSize is absent or positive.
GoodImage(q) == q.img.ok
GoodOptions(d) ==
    /\ ~Unrecognized(d.cf, ColorFormat)
    /\ ~Unrecognized(d.output, OutputNames)
    /\ ~Unrecognized(d.compression, CompressMethod)
GoodMaxSize(d) ==
    \/ d.maxSize.t = "absent"
    \/ /\ WellFormedMaxSize(d.maxSize)
       /\ d.maxSize.t = "dict" =>
            /\ d.maxSize.width.k = "int" /\ d.maxSize.width.v > 0
            /\ d.maxSize.height.k = "int" /\ d.maxSize.height.v > 0

\* C1: of two requests in the handler at once, each is answered with an
\* artifact encoded by itself from its own input image: a 200 response to
\* request r carries a file that r wrote from bytes r fetched.
C1_OwnArtifact ==
    \A r \in ReqIds :
        resp[r].status = 200 =>
            /\ resp[r].art.exists
            /\ resp[r].art.src = r
            /\ resp[r].art.by = r

\* C2: a request whose cf is present and is no color-format name (and that
\* is in order otherwise) never executes a fetch or a resize, and ends with
\* HTTP 400.
C2_InvalidCfRejectedBeforeFetch ==
    \A r \in ReqIds :
        LET data == Data(req[r])
        IN  (/\ Active(r)
             /\ Unrecognized(data.cf, ColorFormat)
             /\ GoodImage(req[r]) /\ GoodMaxSize(data)
             /\ ~Unrecognized(data.output, OutputNames)
             /\ ~Unrecognized(data.compression, CompressMethod)) =>
                /\ Steps(r) \cap {"fetch", "resize"} = {}
                /\ Done(r) => resp[r].status = 400

\* C3: a request (a decodable image, no maxSize) with an unrecognized value
\* of cf, output or compression ends with HTTP 400: it is never encoded and
\* never answered with another status; and a 200 response was encoded with
\* the values given, or with RGB565, bin, NONE for the absent ones.
C3_UnrecognizedOptionRejected ==
    \A r \in ReqIds :
        LET data == Data(req[r])
        IN  /\ (/\ Active(r)
                /\ ~GoodOptions(data)
                /\ GoodImage(req[r]) /\ data.maxSize.t = "absent") =>
                    /\ pc[r] \notin {"encode", "send"}
                    /\ Done(r) => resp[r].status = 400
            /\ resp[r].status = 200 =>
                    /\ resp[r].art.cf = OptionOr(data.cf, "RGB565")
                    /\ resp[r].art.fmt = output_map_strict(OptionOr(data.output, "bin"))
                    /\ resp[r].art.comp = OptionOr(data.compression, "NONE")

\* C4: a maxSize that is neither a "WIDTHxHEIGHT" string of two positive
\* integers nor a {width, height} pair ends the request (in order otherwise)
\* with HTTP 400: the request is not carried on to option resolution and is
\* not answered with another status.
C4_InvalidMaxSizeRejected ==
    \A r \in ReqIds :
        LET data == Data(req[r])
        IN  (/\ Active(r)
             /\ data.maxSize.t # "absent" /\ ~WellFormedMaxSize(data.maxSize)
             /\ GoodImage(req[r]) /\ GoodOptions(data)) =>
                /\ pc[r] \notin {"options", "encode", "send"}
                /\ Done(r) => resp[r].status = 400

\* The size of the image the target is resolved against: the crop rectangle
\* applied, or the whole image.
WorkingW == IF geomOut.res.cropRect = <<>> THEN geomIn.w
            ELSE geomOut.res.cropRect[3] - geomOut.res.cropRect[1]
WorkingH == IF geomOut.res.cropRect = <<>> THEN geomIn.h
            ELSE geomOut.res.cropRect[4] - geomOut.res.cropRect[2]
Performed(op) == op \in {geomOut.res.ops[i] : i \in 1..Len(geomOut.res.ops)}

\* C5: on an image of positive size, img.resize is only ever called with a
\* width and a height >= 1, and a call that performed a pixel operation
\* (crop, resize, save) did not end in an error.
C5_ResizeDimsPositive ==
    (geomOut.called /\ geomIn.target.kind # "none") =>
        /\ Performed("resize") =>
                (geomOut.res.resizeArgs[1] >= 1 /\ geomOut.res.resizeArgs[2] >= 1)
        /\ geomOut.res.exc # "" => geomOut.res.ops = <<>>

\* C6: with a (w, h) target, keep_aspect_ratio and positive working size, the
\* size handed to img.resize is within w x h and meets w or h exactly;
\* 1600x1200 with target 800x480 resolves to 640x480.
C6_FitWithin ==
    (/\ geomOut.called
     /\ geomIn.target.kind = "pair" /\ geomIn.keep
     /\ geomIn.target.w > 0 /\ geomIn.target.h > 0
     /\ WorkingW > 0 /\ WorkingH > 0) =>
        LET got == geomOut.res.resizeArgs
        IN  /\ Len(got) = 2
            /\ got[1] <= geomIn.target.w
            /\ got[2] <= geomIn.target.h
            /\ got[1] = geomIn.target.w \/ got[2] = geomIn.target.h
            /\ (WorkingW = 1600 /\ WorkingH = 1200 /\ geomIn.target = Pair(800, 480))
                    => got = <<640, 480>>

C6_Witness ==
    /\ geomOut.called
    /\ geomIn.w = 1600 /\ geomIn.h = 1200 /\ geomIn.keep
    /\ geomIn.target = Pair(800, 480)
    /\ geomOut.res.resizeArgs = <<640, 480>>
    /\ Performed("resize")

\* C7: with a single-dimension target d > 0 and positive working size W x H,
\* the size handed to img.resize is d x round(H * d / W), whatever
\* keep_aspect_ratio is: the height is an integer nearest to H * d / W (on a
\* tie, either neighbour).
Abs(x) == IF x < 0 THEN -x ELSE x
IsNearest(n, a, b) == 2 * Abs(n * b - a) <= b

C7_SingleDimensionRound ==
    (/\ geomOut.called
     /\ geomIn.target.kind = "single" /\ geomIn.target.w > 0
     /\ WorkingW > 0 /\ WorkingH > 0) =>
        LET got == geomOut.res.resizeArgs
        IN  /\ Len(got) = 2
            /\ got[1] = geomIn.target.w
            /\ IsNearest(got[2], WorkingH * geomIn.target.w, WorkingW)

\* C8: a crop spec of any integers is applied, never rejected, and the
\* rectangle handed to img.crop satisfies 0 <= left <= right <= W and
\* 0 <= top <= bottom <= H.
C8_CropRectClamped ==
    (geomOut.called /\ geomIn.crop.present) =>
        LET c == geomOut.res.cropRect
        IN  /\ Len(c) = 4
            /\ Performed("crop")
            /\ 0 <= c[1] /\ c[1] <= c[3] /\ c[3] <= geomIn.w
            /\ 0 <= c[2] /\ c[2] <= c[4] /\ c[4] <= geomIn.h

C8_Witness ==
    /\ geomOut.called /\ geomIn.crop.present
    /\ geomIn.crop.left > geomIn.w /\ geomIn.crop.right > geomIn.w
    /\ geomIn.crop.top < 0 /\ geomIn.crop.bottom < 0
    /\ geomOut.res.cropRect = <<geomIn.w, 0, geomIn.w, geomIn.h>>

\* C9: a request (in order otherwise) whose bytes were fetched but do not
\* decode as an image is answered with a 400-class error, with and without
\* maxSize; 500 is the answer to a failure inside the encoder only.
C9_DecodeFailureIs400 ==
    \A r \in ReqIds :
        LET data == Data(req[r])
        IN  (/\ Done(r)
             /\ "fetch" \in Steps(r) /\ written[r] = req[r].body
             /\ req[r].kind = "upload" => req[r].params # "invalid"
             /\ ~req[r].img.ok
             /\ GoodOptions(data) /\ GoodMaxSize(data)) =>
                resp[r].status \in 400..499

\* C10: the bytes a URL request stages in input.png never exceed the size
\* ceiling, and a body longer than the ceiling ends in the download error.
C10_StagedBytesBounded ==
    \A r \in ReqIds :
        req[r].kind = "json" =>
            /\ written[r] <= MAX_CONTENT_LENGTH
            /\ (Done(r) /\ req[r].body > MAX_CONTENT_LENGTH) =>
                    (resp[r].status = 400 /\ resp[r].error = "Error downloading image")

====
